---- MODULE Spec2Model ----
(***************************************************************************)
(* Digital Sabbath backend: the request handlers of main.py over the four  *)
(* document collections (blogpost, tip, challenge, ebooktest), the schema  *)
(* validation of schemas.py and the store adapter (database.py) they call. *)
(*                                                                         *)
(* Python values are tagged records [t, s, n, l] so that isinstance,       *)
(* truthiness and str() can be modelled: t is the runtime type, s a string *)
(* payload, n an integer payload, l a list-of-strings payload.             *)
(* A dict is a function from field names to such values.                   *)
(***************************************************************************)
EXTENDS Integers, Sequences, FiniteSets, TLC

\* Bounds of the model: how many requests are issued in one behaviour, when
\* they are handled concurrently and when they are handled one after another.
MaxCalls == 2

MaxSeqCalls == 4

\* ------------------------------------------------------------------------
\* Python values
\* ------------------------------------------------------------------------
NoneV == [t |-> "none", s |-> "", n |-> 0, l |-> <<>>]

Str(x) == [t |-> "str", s |-> x, n |-> 0, l |-> <<>>]

IntV(k) == [t |-> "int", s |-> "", n |-> k, l |-> <<>>]

Datetime(k) == [t |-> "datetime", s |-> "", n |-> k, l |-> <<>>]

\* The k-th identifier the store assigns in collection c
ObjectId(c, k) == [t |-> "ObjectId", s |-> c, n |-> k, l |-> <<>>]

StrList(q) == [t |-> "list", s |-> "", n |-> 0, l |-> q]

\* db[coll].inserted_id : attribute access on a pymongo Collection yields the
\* sub-collection "<coll>.inserted_id", a Collection object.
CollectionObj(name) == [t |-> "Collection", s |-> name, n |-> 0, l |-> <<>>]

\* db[coll].find_one without a call: a bound method object.
BoundMethod(name) == [t |-> "method", s |-> name, n |-> 0, l |-> <<>>]

\* Python truthiness of a value (bool(v)); a datetime is always truthy.
Truthy(v) ==
    CASE v.t = "none" -> FALSE
      [] v.t = "str"  -> v.s # ""
      [] v.t = "int"  -> v.n # 0
      [] v.t = "list" -> v.l # <<>>
      [] OTHER        -> TRUE

\* not doc, for a dict or None: None and the empty dict are falsy
Not(doc) == DOMAIN doc = {} \/ doc = NoneV

\* a or b
Or(a, b) == IF Truthy(a) THEN a ELSE b

\* dict.get(k) with the default None
Get(d, k) == IF k \in DOMAIN d THEN d[k] ELSE NoneV

\* str(ObjectId): the identifier's text form
str(v) == v.s \o "-" \o ToString(v.n)

\* datetime.isoformat(): day n of the model's calendar, at midnight
isoformat(v) == "2024-01-" \o ToString(v.n) \o "T00:00:00"

Range(q) == {q[i] : i \in DOMAIN q}

\* ------------------------------------------------------------------------
\* schemas.py
\* ------------------------------------------------------------------------
DefaultLang == "hu"

DefaultDuration == 7

MinDuration == 1

MaxDuration == 90

\* Blogpost(...).model_dump(): every field present, absent optionals are None
Blogpost(title, slug, excerpt, content, tags, author, published_at) ==
    [title |-> Str(title), slug |-> Str(slug), excerpt |-> excerpt,
     content |-> Str(content), cover_image |-> NoneV, tags |-> StrList(tags),
     author |-> author, published_at |-> published_at, lang |-> Str(DefaultLang)]

Tip(title, description, tags) ==
    [title |-> Str(title), description |-> Str(description), category |-> NoneV,
     difficulty |-> NoneV, tags |-> StrList(tags), lang |-> Str(DefaultLang)]

\* Mutant of DurationOk: the upper limit is left out.
DurationOk_NoUpper(k) == k >= MinDuration

\* Field(7, ge=1, le=90): the constraint on a supplied duration_days
DurationOk(k) == k >= MinDuration /\ k <= MaxDuration

\* Challenge validation: raw.duration_days is None when the field is absent.
\* Yields the validated model, or None when validation fails.
Challenge(title, description, duration_days, tags) ==
    LET d == IF duration_days.t = "none" THEN DefaultDuration ELSE duration_days.n
    IN  IF duration_days.t = "none" \/ DurationOk(d)
        THEN [title |-> Str(title), description |-> Str(description),
              duration_days |-> IntV(d), focus |-> NoneV,
              tags |-> StrList(tags), lang |-> Str(DefaultLang)]
        ELSE NoneV

Ebooktest(title, description, questions, recommended_reads, tags) ==
    [title |-> Str(title), description |-> description,
     questions |-> StrList(questions),
     recommended_reads |-> StrList(recommended_reads),
     tags |-> StrList(tags), lang |-> Str(DefaultLang)]

\* collection_name(model_cls) = model_cls.__name__.lower()
collection_name(cls) ==
    CASE cls = "Blogpost"  -> "blogpost"
      [] cls = "Tip"       -> "tip"
      [] cls = "Challenge" -> "challenge"
      [] cls = "Ebooktest" -> "ebooktest"

Collections == {collection_name(c) : c \in {"Blogpost", "Tip", "Challenge", "Ebooktest"}}

\* ------------------------------------------------------------------------
\* _serialize
\* ------------------------------------------------------------------------
\* Mutant of _serialize: the datetimes are left as they are.
_serialize_raw_datetimes(doc) ==
    IF Not(doc)
    THEN doc
    ELSE LET _id == Get(doc, "_id")
             popped == [k \in (DOMAIN doc) \ {"_id"} |-> doc[k]]
         IN  IF _id # NoneV THEN ("id" :> Str(str(_id))) @@ popped ELSE popped

\* d = dict(doc); d.pop("_id"); d["id"] = str(_id); datetimes -> isoformat
_serialize(doc) ==
    IF Not(doc)
    THEN doc
    ELSE LET _id == Get(doc, "_id")
             popped == [k \in (DOMAIN doc) \ {"_id"} |-> doc[k]]
             d == IF _id # NoneV
                  THEN ("id" :> Str(str(_id))) @@ popped
                  ELSE popped
         IN  [k \in DOMAIN d |->
                 IF d[k].t = "datetime" THEN Str(isoformat(d[k])) ELSE d[k]]

\* ------------------------------------------------------------------------
\* State
\* ------------------------------------------------------------------------
VARIABLES
    db,       \* collection name -> sequence of stored documents (natural order)
    nextId,   \* collection name -> the next identifier the store assigns in it
    now,      \* collection name -> the clock reading its next insert is stamped with
    slots,    \* request worker -> the multi-step request it is handling
    calls,    \* requests issued so far
    seeded,   \* a seed_demo call has completed
    last      \* the handler step just executed and, if it ended a request, its response

vars == <<db, nextId, now, slots, calls, seeded, last>>

Req == {1, 2}

\* A new request goes to the first worker that is free.
Free(w) ==
    /\ slots[w].pc = "idle"
    /\ \A v \in Req : slots[v].pc = "idle" => v >= w

Idle ==
    [pc |-> "idle", payload |-> NoneV, id |-> NoneV, phase |-> 0, item |-> 0,
     out |-> <<>>, after |-> FALSE, snap |-> <<>>]

\* A step that does not end its request sends no response (status 0).
NoStep == [op |-> "none", step |-> "none", arg |-> NoneV, status |-> 0, body |-> NoneV]

Response(op, step, arg, status, body) ==
    [op |-> op, step |-> step, arg |-> arg, status |-> status, body |-> body]

\* ------------------------------------------------------------------------
\* Store adapter (database.py: db, create_document, get_documents)
\* ------------------------------------------------------------------------
\* The filter value can be sent to the store: a Collection or a bound method
\* has no BSON encoding and the driver raises InvalidDocument.
BsonEncodable(v) == ~("t" \in DOMAIN v /\ v.t \in {"Collection", "method"})

InvalidDocument == [t |-> "InvalidDocument", s |-> "", n |-> 0, l |-> <<>>]

\* collection.find_one({field: value}): the first match in natural order,
\* None when there is none
find_one(docs, field, value) ==
    IF ~BsonEncodable(value)
    THEN InvalidDocument
    ELSE LET hits == {i \in DOMAIN docs : Get(docs[i], field) = value}
         IN  IF hits = {} THEN NoneV
             ELSE docs[CHOOSE i \in hits : \A j \in hits : i <= j]

\* collection.count_documents({})
count_documents(docs) == Len(docs)

\* A document matches a filter {field: {"$in": [values]}} when its array field
\* holds one of the values; the empty filter matches every document.
Matches(doc, filt) ==
    \A k \in DOMAIN filt :
        \E i \in DOMAIN Get(doc, k).l : Get(doc, k).l[i] \in Range(filt[k])

RECURSIVE Select(_, _)
Select(docs, filt) ==
    IF docs = <<>> THEN <<>>
    ELSE IF Matches(Head(docs), filt)
         THEN <<Head(docs)>> \o Select(Tail(docs), filt)
         ELSE Select(Tail(docs), filt)

\* get_documents(collection, filter, limit): the first `limit` matches
get_documents(docs, filt, limit) ==
    LET found == Select(docs, filt)
    IN  IF Len(found) <= limit THEN found ELSE SubSeq(found, 1, limit)

\* The document create_document stores: the model's fields, the store-assigned
\* identifier and the creation timestamp.
Stored(c, data) ==
    ("_id" :> ObjectId(c, nextId[c])) @@ ("created_at" :> Datetime(now[c])) @@ data

\* create_document(collection, data): insert, and return the identifier's text
create_document(c, data) ==
    /\ db' = [db EXCEPT ![c] = Append(@, Stored(c, data))]
    /\ nextId' = [nextId EXCEPT ![c] = @ + 1]
    /\ now' = [now EXCEPT ![c] = @ + 1]

\* str(result.inserted_id) of the insert into collection c
InsertedId(c) == Str(str(ObjectId(c, nextId[c])))

StoreUnchanged == UNCHANGED <<db, nextId, now>>

\* ------------------------------------------------------------------------
\* Request inputs
\* ------------------------------------------------------------------------
SeedSlug == "digital-sabbath-intro"

Slugs == {"a", SeedSlug}

TagInputs == {<<"x">>, <<"y">>}

PublishedInputs == {NoneV, Datetime(2)}

BlogPayloads ==
    {Blogpost("t", slug, NoneV, "c", tags, NoneV, p) :
        slug \in Slugs, tags \in TagInputs, p \in PublishedInputs}

DefaultBlogLimit == 20

DefaultLimit == 50

TagQueries == {NoneV, Str(""), Str("x"), Str("awareness")}

\* ------------------------------------------------------------------------
\* Blogposts
\* ------------------------------------------------------------------------
\* Mutant of TagFilter: the tag is never put into the filter.
TagFilter_Ignored(tag) == <<>>

\* filt = {}; if tag: filt["tags"] = {"$in": [tag]}
TagFilter(tag) == IF Truthy(tag) THEN [tags |-> <<tag.s>>] ELSE <<>>

\* key=lambda d: d.get("published_at") or d.get("created_at")
SortKey(d) == Or(Get(d, "published_at"), Get(d, "created_at"))

\* One step of the stable descending sort: x goes after every element whose
\* key is not smaller than its own.
RECURSIVE InsertDesc(_, _)
InsertDesc(acc, x) ==
    IF acc = <<>> THEN <<x>>
    ELSE IF SortKey(Head(acc)).n >= SortKey(x).n
         THEN <<Head(acc)>> \o InsertDesc(Tail(acc), x)
         ELSE <<x>> \o acc

RECURSIVE SortedDesc(_, _)
SortedDesc(acc, docs) ==
    IF docs = <<>> THEN acc
    ELSE SortedDesc(InsertDesc(acc, Head(docs)), Tail(docs))

\* sorted(...) raises TypeError when two keys are compared and one of them is
\* None (a list of fewer than two documents compares nothing)
SortRaises(docs) ==
    Len(docs) >= 2 /\ \E i \in DOMAIN docs : SortKey(docs[i]).t # "datetime"

\* Mutant of sorted: the documents stay in the order the store returned them.
sorted_unsorted(docs) == docs

\* sorted(docs, key=..., reverse=True)
sorted(docs) == SortedDesc(<<>>, docs)

\* list_blogposts(limit, tag): (status, body)
list_blogposts(limit, tag) ==
    LET docs == get_documents(db[collection_name("Blogpost")], TagFilter(tag), limit)
    IN  IF SortRaises(docs)
        THEN <<500, <<>>>>
        ELSE <<200, [i \in DOMAIN docs |-> _serialize(sorted(docs)[i])]>>

ListBlogposts ==
    /\ \E limit \in {2, DefaultBlogLimit}, tag \in TagQueries :
          LET r == list_blogposts(limit, tag)
          IN  last' = Response("list_blogposts", "return",
                               [limit |-> limit, tag |-> tag], r[1], r[2])
    /\ calls' = calls + 1
    /\ UNCHANGED <<db, nextId, now, slots, seeded>>

\* Mutant of get_blogpost: the look-up is by the wrong field.
get_blogpost_by_title(slug) ==
    LET doc == find_one(db[collection_name("Blogpost")], "title", Str(slug))
    IN  IF Not(doc) THEN <<404, Str("Not found")>> ELSE <<200, _serialize(doc)>>

\* get_blogpost(slug): (status, body)
get_blogpost(slug) ==
    LET doc == find_one(db[collection_name("Blogpost")], "slug", Str(slug))
    IN  IF Not(doc) THEN <<404, Str("Not found")>> ELSE <<200, _serialize(doc)>>

GetBlogpost ==
    /\ \E slug \in Slugs \cup {"missing"} :
          LET r == get_blogpost(slug)
          IN  last' = Response("get_blogpost", "return", Str(slug), r[1], r[2])
    /\ calls' = calls + 1
    /\ UNCHANGED <<db, nextId, now, slots, seeded>>

\* Mutant of SlugExists: the uniqueness check never finds anything.
SlugExists_Never(slug) == FALSE

\* if db[...].find_one({"slug": payload.slug}): raise HTTPException(400)
SlugExists(slug) == ~Not(find_one(db[collection_name("Blogpost")], "slug", slug))

\* create_blogpost, lines 112-113: the uniqueness check
CreateBlogpostCheck(w) ==
    /\ Free(w)
    /\ \E payload \in BlogPayloads :
          IF SlugExists(payload.slug)
          THEN /\ last' = Response("create_blogpost", "check", payload, 400,
                                   Str("Slug already exists"))
               /\ UNCHANGED slots
          ELSE /\ last' = NoStep
               /\ slots' = [slots EXCEPT ![w] =
                              [Idle EXCEPT !.pc = "create_blogpost:insert",
                                           !.payload = payload]]
    /\ calls' = calls + 1
    /\ UNCHANGED <<db, nextId, now, seeded>>

\* create_blogpost, line 114: _id = create_document(...)
CreateBlogpostInsert(w) ==
    /\ slots[w].pc = "create_blogpost:insert"
    /\ create_document(collection_name("Blogpost"), slots[w].payload)
    /\ slots' = [slots EXCEPT ![w].pc = "create_blogpost:refetch", ![w].id = InsertedId(collection_name("Blogpost"))]
    /\ last' = NoStep
    /\ UNCHANGED <<calls, seeded>>

\* create_blogpost, lines 115-118: the re-fetch and the response
create_blogpost_refetch(payload, _id) ==
    LET coll == db[collection_name("Blogpost")]
        inner == find_one(coll, "_id", CollectionObj("blogpost.inserted_id"))
        created == IF inner = InvalidDocument THEN inner ELSE find_one(coll, "_id", inner)
        doc == find_one(coll, "slug", payload.slug)
    IN  IF created = InvalidDocument
        THEN <<500, Str("Internal Server Error")>>
        ELSE IF ~Not(doc) THEN <<201, _serialize(doc)>> ELSE <<201, [id |-> _id]>>

CreateBlogpostRefetch(w) ==
    /\ slots[w].pc = "create_blogpost:refetch"
    /\ LET r == create_blogpost_refetch(slots[w].payload, slots[w].id)
       IN  last' = Response("create_blogpost", "refetch", slots[w].payload, r[1], r[2])
    /\ slots' = [slots EXCEPT ![w] = Idle]
    /\ UNCHANGED <<db, nextId, now, calls, seeded>>

\* ------------------------------------------------------------------------
\* Tips, challenges, ebook tests
\* ------------------------------------------------------------------------
\* list_tips / list_challenges / list_ebooktests (limit, tag): (status, body)
list_documents(cls, limit, tag) ==
    LET docs == get_documents(db[collection_name(cls)], TagFilter(tag), limit)
    IN  <<200, [i \in DOMAIN docs |-> _serialize(docs[i])]>>

ListTips ==
    /\ \E limit \in {2, DefaultLimit}, tag \in TagQueries :
          LET r == list_documents("Tip", limit, tag)
          IN  last' = Response("list_tips", "return",
                               [limit |-> limit, tag |-> tag], r[1], r[2])
    /\ calls' = calls + 1
    /\ UNCHANGED <<db, nextId, now, slots, seeded>>

ListChallenges ==
    /\ \E limit \in {2, DefaultLimit}, tag \in TagQueries :
          LET r == list_documents("Challenge", limit, tag)
          IN  last' = Response("list_challenges", "return",
                               [limit |-> limit, tag |-> tag], r[1], r[2])
    /\ calls' = calls + 1
    /\ UNCHANGED <<db, nextId, now, slots, seeded>>

ListEbooktests ==
    /\ \E limit \in {2, DefaultLimit}, tag \in TagQueries :
          LET r == list_documents("Ebooktest", limit, tag)
          IN  last' = Response("list_ebooktests", "return",
                               [limit |-> limit, tag |-> tag], r[1], r[2])
    /\ calls' = calls + 1
    /\ UNCHANGED <<db, nextId, now, slots, seeded>>

\* create_tip, line 134: _id = create_document(...)
CreateTipInsert(w) ==
    /\ Free(w)
    /\ \E tags \in TagInputs :
          LET payload == Tip("t", "d", tags)
          IN  /\ create_document(collection_name("Tip"), payload)
              /\ slots' = [slots EXCEPT ![w] =
                             [Idle EXCEPT !.pc = "create_tip:refetch",
                                          !.payload = payload,
                                          !.id = InsertedId(collection_name("Tip"))]]
              /\ last' = NoStep
    /\ calls' = calls + 1
    /\ UNCHANGED seeded

\* create_tip, lines 135-140: the three look-ups and the response
create_tip_refetch(_id) ==
    LET coll == db[collection_name("Tip")]
        inner == find_one(coll, "_id", _id)
        doc1 == find_one(coll, "_id", inner)
        doc2 == NoneV
        created == find_one(coll, "_id", BoundMethod("find_one"))
    IN  IF InvalidDocument \in {inner, doc1, created}
        THEN <<500, Str("Internal Server Error")>>
        ELSE <<201, [id |-> _id]>>

CreateTipRefetch(w) ==
    /\ slots[w].pc = "create_tip:refetch"
    /\ LET r == create_tip_refetch(slots[w].id)
       IN  last' = Response("create_tip", "refetch", slots[w].payload, r[1], r[2])
    /\ slots' = [slots EXCEPT ![w] = Idle]
    /\ UNCHANGED <<db, nextId, now, calls, seeded>>

\* duration_days in the request body: None when the field is left out
DurationInputs == {NoneV} \cup {IntV(k) : k \in {-1, 0, 1, 90, 91}}

\* create_challenge: validation of the body, then create_document
CreateChallenge ==
    /\ \E dur \in DurationInputs, tags \in TagInputs :
          LET payload == Challenge("t", "d", dur, tags)
              arg == [duration_days |-> dur, tags |-> StrList(tags)]
          IN  IF payload = NoneV
              THEN /\ last' = Response("create_challenge", "validate", arg, 422,
                                       Str("validation error"))
                   /\ StoreUnchanged
              ELSE /\ create_document(collection_name("Challenge"), payload)
                   /\ last' = Response("create_challenge", "return", arg, 201,
                                       [id |-> InsertedId(collection_name("Challenge"))])
    /\ calls' = calls + 1
    /\ UNCHANGED <<slots, seeded>>

\* create_ebooktest: create_document, return {"id": _id}
CreateEbooktest ==
    /\ \E tags \in TagInputs :
          LET payload == Ebooktest("t", NoneV, <<>>, <<>>, tags)
          IN  /\ create_document(collection_name("Ebooktest"), payload)
              /\ last' = Response("create_ebooktest", "return", payload, 201,
                                  [id |-> InsertedId(collection_name("Ebooktest"))])
    /\ calls' = calls + 1
    /\ UNCHANGED <<slots, seeded>>

\* ------------------------------------------------------------------------
\* seed_demo
\* ------------------------------------------------------------------------
\* The demo documents (their Hebrew texts are abbreviated to ASCII labels).
DemoPosts ==
    << Blogpost("intro", SeedSlug, Str("why"), "opening",
                <<"start", "awareness">>, Str("team"), NoneV),
       Blogpost("rituals", "micro-rituals", Str("habits"), "list",
                <<"tips", "mindfulness">>, Str("guest"), NoneV) >>

DemoTips ==
    << Tip("mute", "moment", <<"detox">>),
       Tip("walk", "world", <<"awareness">>) >>

DemoChallenges ==
    << Challenge("24h", "curious", IntV(1), <<"detox">>),
       Challenge("7d", "ritual", IntV(7), <<>>) >>

DemoTests ==
    << Ebooktest("book", Str("quiz"), <<"q1", "q2">>,
                 <<"Digital Minimalism", "How To Do Nothing">>, <<"reads">>) >>

\* The order seed_demo visits the collections in, with the key it reports under
SeedPlan ==
    << [cls |-> "Blogpost",  docs |-> DemoPosts,      key |-> "blogposts"],
       [cls |-> "Tip",       docs |-> DemoTips,       key |-> "tips"],
       [cls |-> "Challenge", docs |-> DemoChallenges, key |-> "challenges"],
       [cls |-> "Ebooktest", docs |-> DemoTests,      key |-> "ebooktests"] >>

\* Mutant of IsEmpty: the collection is seeded whatever it holds.
IsEmpty_Always(docs) == TRUE

\* if db[...].count_documents({}) == 0
IsEmpty(docs) == count_documents(docs) = 0

\* seed_demo is entered: out = {"inserted": {}}
SeedStart(w) ==
    /\ Free(w)
    /\ slots' = [slots EXCEPT ![w] =
                   [Idle EXCEPT !.pc = "seed_demo", !.phase = 1,
                                !.after = seeded, !.snap = db]]
    /\ last' = NoStep
    /\ calls' = calls + 1
    /\ UNCHANGED <<db, nextId, now, seeded>>

\* seed_demo: the emptiness test of the current collection
SeedCount(w) ==
    /\ slots[w].pc = "seed_demo"
    /\ slots[w].phase <= Len(SeedPlan)
    /\ slots[w].item = 0
    /\ slots' = IF IsEmpty(db[collection_name(SeedPlan[slots[w].phase].cls)])
                THEN [slots EXCEPT ![w].item = 1]
                ELSE [slots EXCEPT ![w].phase = @ + 1]
    /\ last' = NoStep
    /\ UNCHANGED <<db, nextId, now, calls, seeded>>

\* seed_demo: one create_document of the loop; after the last one the count is
\* recorded in out["inserted"]
SeedInsert(w) ==
    /\ slots[w].pc = "seed_demo"
    /\ slots[w].item >= 1
    /\ LET plan == SeedPlan[slots[w].phase]
       IN  /\ create_document(collection_name(plan.cls), plan.docs[slots[w].item])
           /\ slots' = IF slots[w].item < Len(plan.docs)
                       THEN [slots EXCEPT ![w].item = @ + 1]
                       ELSE [slots EXCEPT ![w].item = 0, ![w].phase = @ + 1,
                                          ![w].out = (plan.key :> Len(plan.docs)) @@ @]
    /\ last' = NoStep
    /\ UNCHANGED <<calls, seeded>>

\* seed_demo: return out
SeedReturn(w) ==
    /\ slots[w].pc = "seed_demo"
    /\ slots[w].phase > Len(SeedPlan)
    /\ last' = Response("seed_demo", "return",
                        [after |-> slots[w].after, snap |-> slots[w].snap],
                        200, [inserted |-> slots[w].out])
    /\ slots' = [slots EXCEPT ![w] = Idle]
    /\ seeded' = TRUE
    /\ UNCHANGED <<db, nextId, now, calls>>

\* ------------------------------------------------------------------------
\* Specifications
\* ------------------------------------------------------------------------
Init ==
    /\ db = [c \in Collections |-> <<>>]
    /\ nextId = [c \in Collections |-> 1]
    /\ now = [c \in Collections |-> 1]
    /\ slots = [w \in Req |-> Idle]
    /\ calls = 0
    /\ seeded = FALSE
    /\ last = NoStep

SeedStep(w) == SeedCount(w) \/ SeedInsert(w) \/ SeedReturn(w)

\* More requests may be issued.
More == calls < MaxCalls

\* The blog-post handlers and seed_demo, requests handled concurrently.
Next ==
    \/ More /\ \E w \in Req : CreateBlogpostCheck(w)
    \/ \E w \in Req : CreateBlogpostInsert(w)
    \/ \E w \in Req : CreateBlogpostRefetch(w)
    \/ More /\ \E w \in Req : SeedStart(w)
    \/ \E w \in Req : SeedStep(w)
    \/ More /\ ListBlogposts
    \/ More /\ GetBlogpost

Spec == Init /\ [][Next]_vars

\* No request is being handled, and more may be issued.
Quiet == calls < MaxSeqCalls /\ \A w \in Req : slots[w].pc = "idle"

\* The same handlers, requests handled one after another.
SeqNext ==
    \/ Quiet /\ \E w \in Req : CreateBlogpostCheck(w)
    \/ \E w \in Req : CreateBlogpostInsert(w)
    \/ \E w \in Req : CreateBlogpostRefetch(w)
    \/ Quiet /\ \E w \in Req : SeedStart(w)
    \/ \E w \in Req : SeedStep(w)
    \/ Quiet /\ ListBlogposts
    \/ Quiet /\ GetBlogpost

SeqSpec == Init /\ [][SeqNext]_vars

\* The tip, challenge and ebook-test handlers, the four list handlers and
\* seed_demo, requests handled concurrently.
ContentNext ==
    \/ More /\ \E w \in Req : CreateTipInsert(w)
    \/ \E w \in Req : CreateTipRefetch(w)
    \/ More /\ CreateChallenge
    \/ More /\ CreateEbooktest
    \/ More /\ \E w \in Req : SeedStart(w)
    \/ \E w \in Req : SeedStep(w)
    \/ More /\ ListBlogposts
    \/ More /\ ListTips
    \/ More /\ ListChallenges
    \/ More /\ ListEbooktests

ContentSpec == Init /\ [][ContentNext]_vars

\* ------------------------------------------------------------------------
\* Properties
\* ------------------------------------------------------------------------
Posts == db[collection_name("Blogpost")]

\* The stored blog posts with the given slug (a Str value)
WithSlug(slug) == {i \in DOMAIN Posts : Posts[i].slug = slug}

\* C1: under any interleaving of concurrent create_blogpost requests and
\* seed_demo calls, the blogpost collection holds at most one document for
\* any slug.
C1_SlugUnique ==
    \A i, j \in DOMAIN Posts : Posts[i].slug = Posts[j].slug => i = j

\* C2: with requests handled one after another, a create_blogpost call whose
\* slug is already stored never passes the check: it is answered 400 and the
\* store is left as it was, so no slug is ever stored twice.
C2_DuplicateRejected ==
    /\ [][\A w \in Req :
            (slots[w].pc = "idle" /\ slots'[w].pc = "create_blogpost:insert")
                => WithSlug(slots'[w].payload.slug) = {}]_vars
    /\ [][(last'.op = "create_blogpost" /\ last'.status = 400)
            => (db' = db /\ WithSlug(last'.arg.slug) # {})]_vars
    /\ [](\A i \in DOMAIN Posts : Cardinality(WithSlug(Posts[i].slug)) = 1)

\* C2 witness: a second create with a stored slug was answered 400 and the
\* collection holds exactly one document with that slug.
C2_Witness ==
    /\ last.op = "create_blogpost"
    /\ last.status = 400
    /\ last.arg.slug = Str("a")
    /\ Cardinality(WithSlug(last.arg.slug)) = 1

\* C3: a create_blogpost call that passed the check and inserted its document
\* ends with 201 and the serialized record of that slug, never with an error.
C3_CreateReturnsRecord ==
    (last.op = "create_blogpost" /\ last.step = "refetch")
        => /\ last.status = 201
           /\ \E i \in WithSlug(last.arg.slug) : last.body = _serialize(Posts[i])

\* C4: create_tip, create_challenge and create_ebooktest with a valid payload
\* end with 201 and a body holding only the new identifier; nothing after the
\* insert turns the request into a failure.
C4_CreateReturnsId ==
    (last.op \in {"create_tip", "create_challenge", "create_ebooktest"}
        /\ last.step # "validate")
        => /\ last.status = 201
           /\ DOMAIN last.body = {"id"}

\* The stored blog post a serialized record stands for
StoredPost(ser) == CHOOSE i \in DOMAIN Posts : Str(str(Posts[i]._id)) = ser.id

\* published_at if present, else created_at
Recency(d) ==
    IF d.published_at.t = "datetime" THEN d.published_at.n ELSE d.created_at.n

ListOps ==
    [list_blogposts |-> "Blogpost", list_tips |-> "Tip",
     list_challenges |-> "Challenge", list_ebooktests |-> "Ebooktest"]

\* The stored documents of the collection a list handler reads
Listed(op) == db[collection_name(ListOps[op])]

HasTag(d, tag) == \E i \in DOMAIN d.tags.l : d.tags.l[i] = tag

Min(a, b) == IF a <= b THEN a ELSE b

\* C6 as claimed: for every given tag string, the empty string included, each
\* of the four list handlers returns only documents that carry the tag.
C6_AnyGivenTagFilters ==
    (last.op \in DOMAIN ListOps /\ last.arg.tag.t = "str")
        => \A i \in DOMAIN last.body : HasTag(last.body[i], last.arg.tag.s)

\* C6 as amended: for every given non-empty tag string, each of the four list
\* handlers returns only documents that carry the tag, as many as carry it up
\* to the limit; when no tag is given, or the empty string, nothing is
\* filtered: the stored documents are returned up to the limit.
C6_NonEmptyTagFilters ==
    (last.op \in DOMAIN ListOps /\ last.status = 200)
        => LET tag == last.arg.tag
               stored == Listed(last.op)
               tagged == {i \in DOMAIN stored : HasTag(stored[i], tag.s)}
           IN  IF tag.t = "str" /\ tag.s # ""
               THEN /\ \A i \in DOMAIN last.body : HasTag(last.body[i], tag.s)
                    /\ Len(last.body) = Min(last.arg.limit, Cardinality(tagged))
               ELSE Len(last.body) = Min(last.arg.limit, Len(stored))

\* C6 witness: a list by a non-empty tag returned a document that carries it
\* and left out a stored document that does not.
C6_Witness ==
    /\ last.op = "list_tips"
    /\ last.arg.tag = Str("awareness")
    /\ Len(last.body) = 1
    /\ Len(Listed(last.op)) = 2

\* The documents seed_demo stores in a collection are its demo documents
IsDemo(stored, docs) ==
    /\ Len(stored) = Len(docs)
    /\ \A i \in DOMAIN docs : \A k \in DOMAIN docs[i] : stored[i][k] = docs[i][k]

\* C7: with requests handled one after another, a seed_demo call inserts the
\* demo documents into the collections that were empty when it was called,
\* reports their count, and leaves every other collection as it was; a call
\* after a completed seed_demo call inserts nothing and reports nothing.
C7_SeedOnlyEmpty ==
    (last.op = "seed_demo" /\ last.status = 200)
        => /\ last.arg.after
                => (db = last.arg.snap /\ DOMAIN last.body.inserted = {})
           /\ \A p \in DOMAIN SeedPlan :
                 LET c == collection_name(SeedPlan[p].cls)
                     key == SeedPlan[p].key
                 IN  IF last.arg.snap[c] = <<>>
                     THEN /\ IsDemo(db[c], SeedPlan[p].docs)
                          /\ key \in DOMAIN last.body.inserted
                          /\ last.body.inserted[key] = Len(SeedPlan[p].docs)
                     ELSE /\ db[c] = last.arg.snap[c]
                          /\ key \notin DOMAIN last.body.inserted

\* C7 witness: a seed_demo call made after a completed one has returned.
C7_Witness ==
    /\ last.op = "seed_demo"
    /\ last.status = 200
    /\ last.arg.after
    /\ \A c \in Collections : db[c] # <<>>

\* C8: get_blogpost answers 404 exactly when no stored blog post has the slug,
\* otherwise 200 with the serialized form of a stored post with that slug, and
\* it leaves the store as it was.
C8_GetBySlug ==
    /\ [](last.op = "get_blogpost"
            => /\ last.status = 404 <=> WithSlug(last.arg) = {}
               /\ WithSlug(last.arg) # {}
                    => /\ last.status = 200
                       /\ \E i \in WithSlug(last.arg) : last.body = _serialize(Posts[i]))
    /\ [][last'.op = "get_blogpost" => db' = db]_vars

\* C8 witness: one slug was found while another post is stored too.
C8_Witness ==
    /\ last.op = "get_blogpost"
    /\ last.status = 200
    /\ last.body.slug = last.arg
    /\ Len(Posts) = 2

\* What the serialized form of a stored record must be
SerializedOk(d) ==
    LET ser == _serialize(d)
    IN  /\ DOMAIN ser = ((DOMAIN d) \ {"_id"}) \cup {"id"}
        /\ ser.id = Str(d._id.s \o "-" \o ToString(d._id.n))
        /\ \A k \in (DOMAIN d) \ {"_id"} :
              IF d[k].t = "datetime"
              THEN ser[k] = Str("2024-01-" \o ToString(d[k].n) \o "T00:00:00")
              ELSE ser[k] = d[k]

\* C9: _serialize of a stored record has id, the string form of _id, in place
\* of _id, the ISO-8601 string in place of every timestamp, and every other
\* field unchanged; None and the empty record are returned as they are.
C9_Serialized ==
    /\ \A c \in Collections : \A i \in DOMAIN db[c] : SerializedOk(db[c][i])
    /\ _serialize(NoneV) = NoneV
    /\ DOMAIN _serialize(<<>>) = {}

\* C9 witness: a stored post with a published_at timestamp was returned
\* serialized.
C9_Witness ==
    /\ last.op = "get_blogpost"
    /\ last.status = 200
    /\ last.body.published_at.t = "str"
    /\ last.body.created_at.t = "str"

Challenges == db[collection_name("Challenge")]

\* The duration_days stored for the challenge with the given identifier text
StoredDuration(id) ==
    {Challenges[i].duration_days.n :
        i \in {j \in DOMAIN Challenges : Str(str(Challenges[j]._id)) = id}}

\* C10: create_challenge rejects a duration_days below 1 or above 90 and
\* inserts nothing, stores a duration_days from 1 to 90 as given and 7 when
\* the field is absent; every stored challenge has duration_days in 1..90.
C10_DurationRange ==
    /\ [](\A i \in DOMAIN Challenges :
            /\ Challenges[i].duration_days.t = "int"
            /\ Challenges[i].duration_days.n \in 1..90)
    /\ [](last.op = "create_challenge"
            => LET dur == last.arg.duration_days
               IN  CASE dur.t = "none" ->
                          last.status = 201 /\ StoredDuration(last.body.id) = {7}
                     [] dur.t = "int" /\ (dur.n < 1 \/ dur.n > 90) ->
                          last.status = 422
                     [] OTHER ->
                          last.status = 201 /\ StoredDuration(last.body.id) = {dur.n})
    /\ [][(last'.op = "create_challenge" /\ last'.status = 422) => db' = db]_vars

\* C10 witness: after a challenge was stored, a duration_days of 91 was
\* rejected.
C10_Witness ==
    /\ last.op = "create_challenge"
    /\ last.status = 422
    /\ last.arg.duration_days = IntV(91)
    /\ Len(Challenges) = 1

====
